---- MODULE Spec2Model ----
(***************************************************************************)
(* A model of bin/client.js, the threejs-cli command-line client: the      *)
(* argument parser, the configuration store, the backend client, the       *)
(* command handlers, the project file writer and main's dispatch.          *)
(*                                                                         *)
(* JavaScript strings are sequences of one-character strings, so that      *)
(* startsWith, slice, parseFloat and the whitespace replacement are        *)
(* computed on the characters. JavaScript values are tagged records.       *)
(***************************************************************************)
EXTENDS Integers, Sequences, FiniteSets, TLC

VARIABLES
  file,     \* the configuration file config.json: absent, or its JSON members
  disk,     \* the directories and files under the project output location
  pc,       \* where the running invocation is: idle, an await, or done
  argv,     \* the running invocation's command token and arguments
  out,      \* the messages the running invocation has printed, in order
  net,      \* the network requests the running invocation has issued, in order
  resps,    \* the responses it has received, in the order of the requests
  calls,    \* the ThreeJSAPI methods it has called, each with how it ended
  exit,     \* how the invocation ended: running, ok, or uncaught
  runs,     \* the number of invocations started so far
  pArgs,    \* parseArgs harness: the token sequence
  pParsed,  \* parseArgs harness: the returned map
  cCall,    \* configuration store harness: the last call and what it returned
  sCall,    \* file writer harness: the last call and how it ended
  conc      \* two invocations saving credentials at once: where each is

vars == <<file, disk, pc, argv, out, net, resps, calls, exit, runs, pArgs, pParsed, cCall, sCall, conc>>

(***************************************************************************)
(* Bounds of the model.                                                    *)
(***************************************************************************)
\* the longest token sequence handed to parseArgs in the parser harness
MaxArgs == 3
\* the number of calls made on the configuration store in its harness
MaxCalls == 3
\* the number of saveProjectFiles calls in the file writer harness
MaxSaves == 2
\* the number of CLI invocations run one after another
MaxRuns == 2

(***************************************************************************)
(* Strings.                                                                *)
(***************************************************************************)
s_empty == <<>>
s_dashdash == <<"-", "-">>
s_username == <<"u", "s", "e", "r", "n", "a", "m", "e">>
s_key == <<"k", "e", "y">>
s_email == <<"e", "m", "a", "i", "l">>
s_apiKey == <<"a", "p", "i", "K", "e", "y">>
s_userId == <<"u", "s", "e", "r", "I", "d">>
s_userEmail == <<"u", "s", "e", "r", "E", "m", "a", "i", "l">>
s_proto == <<"_", "_", "p", "r", "o", "t", "o", "_", "_">>
s_constructor == <<"c", "o", "n", "s", "t", "r", "u", "c", "t", "o", "r">>
s_toString == <<"t", "o", "S", "t", "r", "i", "n", "g">>
s_valueOf == <<"v", "a", "l", "u", "e", "O", "f">>
s_login == <<"l", "o", "g", "i", "n">>
s_register == <<"r", "e", "g", "i", "s", "t", "e", "r">>
s_generate == <<"g", "e", "n", "e", "r", "a", "t", "e">>
s_createKey == <<"c", "r", "e", "a", "t", "e", "K", "e", "y">>
s_create_key == <<"c", "r", "e", "a", "t", "e", "-", "k", "e", "y">>
s_whoami == <<"w", "h", "o", "a", "m", "i">>
s_tokens == <<"t", "o", "k", "e", "n", "s">>
s_buy == <<"b", "u", "y">>
s_package == <<"p", "a", "c", "k", "a", "g", "e">>
s_help == <<"h", "e", "l", "p">>
s_v == <<"-", "v">>
s_version == <<"-", "-", "v", "e", "r", "s", "i", "o", "n">>
s_undefined == <<"u", "n", "d", "e", "f", "i", "n", "e", "d">>
s_foo == <<"f", "o", "o">>
s_basic == <<"b", "a", "s", "i", "c">>
s_standard == <<"s", "t", "a", "n", "d", "a", "r", "d">>
s_premium == <<"p", "r", "e", "m", "i", "u", "m">>
s_pro == <<"p", "r", "o">>
s_Infinity == <<"I", "n", "f", "i", "n", "i", "t", "y">>
s_name == <<"n", "a", "m", "e">>
s_amount == <<"a", "m", "o", "u", "n", "t">>
s_packageType == <<"p", "a", "c", "k", "a", "g", "e", "T", "y", "p", "e">>
s_NewCLIKey == <<"N", "e", "w", " ", "C", "L", "I", " ", "K", "e", "y">>
s_projectType == <<"p", "r", "o", "j", "e", "c", "t", "T", "y", "p", "e">>
s_complexity == <<"c", "o", "m", "p", "l", "e", "x", "i", "t", "y">>
s_style == <<"s", "t", "y", "l", "e">>
s_description == <<"d", "e", "s", "c", "r", "i", "p", "t", "i", "o", "n">>
s_portfolio == <<"p", "o", "r", "t", "f", "o", "l", "i", "o">>
s_intermediate == <<"i", "n", "t", "e", "r", "m", "e", "d", "i", "a", "t", "e">>
s_minimalist == <<"m", "i", "n", "i", "m", "a", "l", "i", "s", "t">>
s_defaultDescription == <<"A", " ", "p", "r", "o", "f", "e", "s", "s", "i", "o", "n", "a", "l", " ", "T", "h", "r", "e", "e", ".", "j", "s", " ", "p", "o", "r", "t", "f", "o", "l", "i", "o", " ", "w", "e", "b", "s", "i", "t", "e", " ", "s", "h", "o", "w", "i", "n", "g", " ", "c", "r", "e", "a", "t", "i", "v", "e", " ", "p", "r", "o", "j", "e", "c", "t", "s", ".">>
s_alice == <<"a", "l", "i", "c", "e">>
s_tk_1 == <<"t", "k", "_", "1">>
s_a_example == <<"a", "@", "x", ".", "i", "o">>
s_game == <<"g", "a", "m", "e">>
s_ten == <<"1", "0">>
s_minus5 == <<"-", "5">>
s_zero == <<"0">>
s_abc == <<"a", "b", "c">>
s_tenabc == <<"1", "0", "a", "b", "c">>
s_five == <<"5">>
s_hasOwnProperty == <<"h", "a", "s", "O", "w", "n", "P", "r", "o", "p", "e", "r", "t", "y">>

\* String.prototype.startsWith
StartsWith(s, prefix) ==
  /\ Len(s) >= Len(prefix)
  /\ \A i \in 1..Len(prefix) : s[i] = prefix[i]

\* String.prototype.slice(n), n >= 0
Slice(s, n) == IF n >= Len(s) THEN <<>> ELSE SubSeq(s, n + 1, Len(s))

(***************************************************************************)
(* JavaScript values.                                                      *)
(***************************************************************************)
JUndef == [t |-> "undefined"]
JNull == [t |-> "null"]
JTrue == [t |-> "boolean", b |-> TRUE]
JFalse == [t |-> "boolean", b |-> FALSE]
JNaN == [t |-> "NaN"]
JInfinity == [t |-> "Infinity"]
JStr(s) == [t |-> "string", s |-> s]
JNum(n) == [t |-> "number", n |-> n]
\* a function object, named by the property that holds it
JFun(name) == [t |-> "function", name |-> name]
\* Object.prototype itself, as a value
JObjectPrototype == [t |-> "object", ref |-> "Object.prototype"]

\* ToBoolean
Truthy(v) ==
  CASE v.t = "undefined" -> FALSE
    [] v.t = "null" -> FALSE
    [] v.t = "NaN" -> FALSE
    [] v.t = "boolean" -> v.b
    [] v.t = "string" -> v.s # <<>>
    [] v.t = "number" -> v.n # 0
    [] OTHER -> TRUE

(***************************************************************************)
(* Plain objects ({} literals and JSON.parse results): the own properties  *)
(* in insertion order, with Object.prototype behind them.                  *)
(***************************************************************************)
\* the data properties every plain object inherits from Object.prototype
ObjectPrototypeMethods == {s_constructor, s_toString, s_valueOf, s_hasOwnProperty}

EmptyObject == <<>>

HasOwn(o, k) == \E i \in 1..Len(o) : o[i].k = k

OwnIndex(o, k) == CHOOSE i \in 1..Len(o) : o[i].k = k

\* o[k]: the own property, else what the prototype chain gives
ObjGet(o, k) ==
  IF HasOwn(o, k) THEN o[OwnIndex(o, k)].v
  ELSE IF k = s_proto THEN JObjectPrototype
  ELSE IF k \in ObjectPrototypeMethods THEN JFun(k)
  ELSE JUndef

\* o[k] = v. Assigning to __proto__ runs Object.prototype's setter, which
\* adds no own property (a primitive is ignored, an object or null replaces
\* the prototype); any other key replaces the own property or appends it.
ObjSet(o, k, v) ==
  IF HasOwn(o, k) THEN [o EXCEPT ![OwnIndex(o, k)].v = v]
  ELSE IF k = s_proto THEN o
  ELSE Append(o, [k |-> k, v |-> v])

(***************************************************************************)
(* parseArgs (client.js 14-30).                                            *)
(***************************************************************************)
RECURSIVE parseArgsFrom(_, _, _)
\* the loop of parseArgs from index i (1-based) with the map built so far
parseArgsFrom(args, i, parsed) ==
  IF i > Len(args) THEN parsed
  ELSE
    LET arg == args[i]
        value == IF i + 1 <= Len(args) THEN JStr(args[i + 1]) ELSE JUndef
    IN IF StartsWith(arg, s_dashdash)
       THEN IF Truthy(value) /\ ~StartsWith(value.s, s_dashdash)
            THEN parseArgsFrom(args, i + 2, ObjSet(parsed, Slice(arg, 2), value))
            ELSE parseArgsFrom(args, i + 1, ObjSet(parsed, Slice(arg, 2), JTrue))
       ELSE parseArgsFrom(args, i + 1, parsed)

parseArgs(args) == parseArgsFrom(args, 1, EmptyObject)

(***************************************************************************)
(* JSON text of a flat object: the members in order (client.js 51, 55).    *)
(***************************************************************************)
\* what JSON.stringify writes for a property value: nothing for undefined
\* and functions, null for NaN and the infinities, the value otherwise
JSONvalue(v) ==
  IF v.t \in {"NaN", "Infinity"} THEN JNull ELSE v

JSONomits(v) == v.t \in {"undefined", "function"}

RECURSIVE JSONstringifyFrom(_, _)
JSONstringifyFrom(o, i) ==
  IF i > Len(o) THEN <<>>
  ELSE IF JSONomits(o[i].v) THEN JSONstringifyFrom(o, i + 1)
  ELSE <<[k |-> o[i].k, v |-> JSONvalue(o[i].v)]>> \o JSONstringifyFrom(o, i + 1)

\* JSON.stringify(data, null, 2) of a flat object
JSONstringify(o) == JSONstringifyFrom(o, 1)

\* JSON.parse defines each member as an own data property (also __proto__),
\* a repeated name keeping its first place and its last value
JSONdefine(o, k, v) ==
  IF HasOwn(o, k) THEN [o EXCEPT ![OwnIndex(o, k)].v = v]
  ELSE Append(o, [k |-> k, v |-> v])

RECURSIVE JSONparseFrom(_, _, _)
JSONparseFrom(text, i, o) ==
  IF i > Len(text) THEN o
  ELSE JSONparseFrom(text, i + 1, JSONdefine(o, text[i].k, text[i].v))

JSONparse(text) == JSONparseFrom(text, 1, EmptyObject)

(***************************************************************************)
(* ConfigManager (client.js 33-68). The file system state it works on is   *)
(* a record: whether the directory exists, whether config.json exists, and *)
(* the file's text.                                                        *)
(***************************************************************************)
NoConfig == [dir |-> FALSE, exists |-> FALSE, text |-> <<>>]

\* ConfigManager.write: fs.writeFileSync(configFile, JSON.stringify(data))
write(f, data) == [f EXCEPT !.exists = TRUE, !.text = JSONstringify(data)]

\* ConfigManager.read: JSON.parse(fs.readFileSync(configFile))
read(f) == JSONparse(f.text)

\* ensureConfigExists without its second existsSync test: it writes the
\* empty record also over an existing file
ensureConfigExistsAlwaysWrites(f) == write([f EXCEPT !.dir = TRUE], EmptyObject)

\* ConfigManager.ensureConfigExists, which the constructor runs
ensureConfigExists(f) ==
  LET f1 == IF ~f.dir THEN [f EXCEPT !.dir = TRUE] ELSE f
  IN IF ~f1.exists THEN write(f1, EmptyObject) ELSE f1

\* new ConfigManager()
ConfigManager(f) == ensureConfigExists(f)

\* ConfigManager.set
set(f, key, value) == write(f, ObjSet(read(f), key, value))

\* ConfigManager.get
get(f, key) == ObjGet(read(f), key)

(***************************************************************************)
(* The file system under the output location "./..": the directories and   *)
(* the files, each named by its path, a sequence of components.            *)
(***************************************************************************)
EmptyMap == [x \in {} |-> JUndef]

NoDisk == [dirs |-> {}, files |-> EmptyMap]

MapPut(m, k, v) == [x \in DOMAIN m \cup {k} |-> IF x = k THEN v ELSE m[x]]

Whitespace == {" ", "\t"}

RECURSIVE DropWhitespace(_)
DropWhitespace(s) ==
  IF s # <<>> /\ Head(s) \in Whitespace THEN DropWhitespace(Tail(s)) ELSE s

RECURSIVE ReplaceWhitespace(_)
\* projectName.replace(/\s+/g, '-'): each run of whitespace becomes one hyphen
ReplaceWhitespace(s) ==
  IF s = <<>> THEN <<>>
  ELSE IF Head(s) \in Whitespace
       THEN <<"-">> \o ReplaceWhitespace(DropWhitespace(s))
       ELSE <<Head(s)>> \o ReplaceWhitespace(Tail(s))

RECURSIVE SplitPath(_, _)
\* the components of a path string, cur being the component read so far
SplitPath(s, cur) ==
  IF s = <<>> THEN <<cur>>
  ELSE IF Head(s) = "/" THEN <<cur>> \o SplitPath(Tail(s), <<>>)
       ELSE SplitPath(Tail(s), Append(cur, Head(s)))

RECURSIVE Normalize(_, _)
\* path.join's normalisation: empty and "." components drop, ".." steps up
Normalize(parts, acc) ==
  IF parts = <<>> THEN acc
  ELSE LET c == Head(parts)
       IN IF c = <<>> \/ c = <<".">> THEN Normalize(Tail(parts), acc)
          ELSE IF c = <<".", ".">>
               THEN Normalize(Tail(parts),
                              IF acc = <<>> THEN acc ELSE SubSeq(acc, 1, Len(acc) - 1))
               ELSE Normalize(Tail(parts), Append(acc, c))

\* path.join(dir, filename), dir already a path
pathJoin(dir, filename) == Normalize(SplitPath(filename, <<>>), dir)

IsDir(d, path) == path = <<>> \/ path \in d.dirs

IsFile(d, path) == path \in DOMAIN d.files

\* fs.existsSync
existsSync(d, path) == IsDir(d, path) \/ IsFile(d, path)

Prefixes(path) == {SubSeq(path, 1, n) : n \in 1..Len(path)}

\* fs.mkdirSync(path, {recursive: true}) succeeds unless a file is in the way
mkdirFails(d, path) == \E q \in Prefixes(path) : IsFile(d, q)

mkdirSync(d, path) == [d EXCEPT !.dirs = @ \cup Prefixes(path)]

\* fs.writeFileSync(path, content) throws when the parent is no directory
\* (ENOENT, ENOTDIR) or the path is a directory (EISDIR)
writeFails(d, path) ==
  \/ path = <<>>
  \/ ~IsDir(d, SubSeq(path, 1, Len(path) - 1))
  \/ IsDir(d, path)

writeFileSync(d, path, content) == [d EXCEPT !.files = MapPut(@, path, content)]

(***************************************************************************)
(* ThreeJSAPI.saveProjectFiles (client.js 142-155). A call ends as a       *)
(* record: the disk it leaves, what it printed, and whether it threw.      *)
(* ioFail is the entry at which the operating system refuses the write     *)
(* (no space, no permission), 0 when it refuses none.                      *)
(***************************************************************************)
\* console.log and console.error lines
Log(m) == [stream |-> "stdout", m |-> m]
Err(m) == [stream |-> "stderr", m |-> m]

RECURSIVE writeEntries(_, _, _, _, _, _)
\* the for loop over Object.entries(files) from entry i
writeEntries(files, i, projectDir, d, printed, ioFail) ==
  IF i > Len(files)
  THEN [disk |-> d, out |-> printed \o <<Log("Project saved to"), Log("To get started")>>,
        threw |-> FALSE]
  ELSE LET filePath == pathJoin(projectDir, files[i].k)
       IN IF i = ioFail \/ writeFails(d, filePath)
          THEN [disk |-> d, out |-> printed, threw |-> TRUE]
          ELSE writeEntries(files, i + 1, projectDir,
                            writeFileSync(d, filePath, files[i].v),
                            Append(printed, Log("Created")), ioFail)

\* the directory: `./../${projectName.replace(/\s+/g, '-')}`
projectDirOf(projectName) ==
  Normalize(SplitPath(ReplaceWhitespace(projectName), <<>>), <<>>)

saveProjectFiles(files, projectName, d, ioFail) ==
  LET projectDir == projectDirOf(projectName)
  IN IF ~existsSync(d, projectDir) /\ mkdirFails(d, projectDir)
     THEN [disk |-> d, out |-> <<>>, threw |-> TRUE]
     ELSE writeEntries(files, 1, projectDir,
                       IF ~existsSync(d, projectDir) THEN mkdirSync(d, projectDir) ELSE d,
                       <<>>, ioFail)

(***************************************************************************)
(* Responses of the backend. A request ends in an error (no response at    *)
(* all, or a response with a status outside 2xx) or in a 2xx response      *)
(* whose parsed body is data.                                              *)
(***************************************************************************)
NetworkError == [status |-> "error", hasResponse |-> FALSE]
HttpError == [status |-> "error", hasResponse |-> TRUE]
Ok(data) == [status |-> "ok", hasResponse |-> TRUE, data |-> data]

\* the null a client method returns from its catch block
NullData == [null |-> TRUE]

\* a body {success: false, error: ...}
Refusal == [success |-> FALSE]

\* the body of a successful register or login, for user d
AuthData(d) ==
  [success |-> TRUE,
   apiKey |-> JStr(<<"k", d>>),
   user |-> [id |-> JStr(<<"u", d>>), email |-> JStr(<<"e", d>>),
             username |-> JStr(<<"n", d>>)]]

Users == {"1", "2"}

AuthResponses == {NetworkError, HttpError, Ok(Refusal)} \cup {Ok(AuthData(d)) : d \in Users}

\* `data && data.success`
Succeeded(data) == "null" \notin DOMAIN data /\ data.success

(***************************************************************************)
(* ThreeJSAPI's methods for the remote operations (client.js 94-140): the  *)
(* try block returns response.data, the catch block prints and returns     *)
(* null. Each takes the request's outcome and gives what the method        *)
(* returned, what it printed and whether an exception left it.             *)
(***************************************************************************)
NoResponseLines ==
  <<Err("No response from server"), Err("the error object")>>

ThreeJSAPI_register(resp) ==
  IF resp.status = "ok"
  THEN [method |-> "register", failed |-> FALSE, ret |-> resp.data, out |-> <<>>,
        threw |-> FALSE]
  ELSE [method |-> "register", failed |-> TRUE, ret |-> NullData,
        out |-> <<Err("Registration failed")>>
                \o (IF ~resp.hasResponse THEN NoResponseLines ELSE <<>>),
        threw |-> FALSE]

ThreeJSAPI_login(resp) ==
  IF resp.status = "ok"
  THEN [method |-> "login", failed |-> FALSE, ret |-> resp.data, out |-> <<>>,
        threw |-> FALSE]
  ELSE [method |-> "login", failed |-> TRUE, ret |-> NullData,
        out |-> <<Err("Login failed")>>
                \o (IF ~resp.hasResponse THEN NoResponseLines ELSE <<>>),
        threw |-> FALSE]

generateProject(resp) ==
  IF resp.status = "ok"
  THEN [method |-> "generateProject", failed |-> FALSE, ret |-> resp.data,
        out |-> <<>>, threw |-> FALSE]
  ELSE [method |-> "generateProject", failed |-> TRUE, ret |-> NullData,
        out |-> <<Err("Error generating project")>>, threw |-> FALSE]

createApiKey(resp) ==
  IF resp.status = "ok"
  THEN [method |-> "createApiKey", failed |-> FALSE, ret |-> resp.data,
        out |-> <<>>, threw |-> FALSE]
  ELSE [method |-> "createApiKey", failed |-> TRUE, ret |-> NullData,
        out |-> <<Err("Error creating API key")>>, threw |-> FALSE]

\* saveProjectFiles as the handler sees it: it has no catch block, so a
\* failed mkdirSync or writeFileSync leaves it as an exception
ThreeJSAPI_saveProjectFiles(files, projectName, d, ioFail) ==
  LET r == saveProjectFiles(files, projectName, d, ioFail)
  IN [method |-> "saveProjectFiles", failed |-> r.threw, ret |-> NullData,
      out |-> r.out, threw |-> r.threw, disk |-> r.disk]

(***************************************************************************)
(* parseFloat, on strings that hold no fraction and no exponent.           *)
(***************************************************************************)
JNegInfinity == [t |-> "-Infinity"]

Digits == <<"0", "1", "2", "3", "4", "5", "6", "7", "8", "9">>

IsDigit(c) == \E i \in 1..Len(Digits) : Digits[i] = c

DigitValue(c) == (CHOOSE i \in 1..Len(Digits) : Digits[i] = c) - 1

RECURSIVE LeadingDigits(_, _, _)
\* the value of the digits s starts with; none read yet when seen is FALSE
LeadingDigits(s, acc, seen) ==
  IF s # <<>> /\ IsDigit(Head(s))
  THEN LeadingDigits(Tail(s), 10 * acc + DigitValue(Head(s)), TRUE)
  ELSE [seen |-> seen, n |-> acc]

parseFloatString(s) ==
  LET t == DropWhitespace(s)
      neg == t # <<>> /\ Head(t) = "-"
      u == IF t # <<>> /\ Head(t) \in {"-", "+"} THEN Tail(t) ELSE t
      d == LeadingDigits(u, 0, FALSE)
  IN IF StartsWith(u, s_Infinity) THEN (IF neg THEN JNegInfinity ELSE JInfinity)
     ELSE IF ~d.seen THEN JNaN
     ELSE JNum(IF neg THEN 0 - d.n ELSE d.n)

\* parseFloat(v): undefined is converted to the string "undefined"
parseFloat(v) == IF v.t = "string" THEN parseFloatString(v.s) ELSE JNaN

\* amount <= 0
NotPositive(v) ==
  CASE v.t = "number" -> v.n <= 0
    [] v.t = "-Infinity" -> TRUE
    [] OTHER -> FALSE

\* the condition of buy's usage branch: !amount || amount <= 0
amountRejected(amount) == ~Truthy(amount) \/ NotPositive(amount)

\* a || b
OrElse(a, b) == IF Truthy(a) THEN a ELSE b

\* args[i], i counted from 0
ArgAt(args, i) == IF i + 1 <= Len(args) THEN JStr(args[i + 1]) ELSE JUndef

(***************************************************************************)
(* The commands object and main's lookup in it (client.js 159, 478-488).   *)
(***************************************************************************)
HandlerNames ==
  <<s_login, s_register, s_generate, s_createKey, s_whoami, s_tokens, s_buy,
    s_package, s_help>>

\* the object literal: each handler under its own name
commands == [i \in 1..Len(HandlerNames) |-> [k |-> HandlerNames[i], v |-> JFun(HandlerNames[i])]]

IsHandler(name) == \E i \in 1..Len(HandlerNames) : HandlerNames[i] = name

\* process.argv[2] as a property key: a missing token is undefined
commandKey(a) == IF a.present THEN a.command ELSE s_undefined

\* command === '-v' || command === '--version'
isVersion(a) == a.present /\ a.command \in {s_v, s_version}

\* commands[command] || commands.help
cmdOf(a) == OrElse(ObjGet(commands, commandKey(a)), ObjGet(commands, s_help))

\* the invocation reaches `await cmd(args)` with cmd the handler called name
Dispatches(a, name) == ~isVersion(a) /\ cmdOf(a) = JFun(name)

\* cmd is no handler of the program: a member of Object.prototype
DispatchesOutside(a) ==
  /\ ~isVersion(a)
  /\ ~(cmdOf(a).t = "function" /\ IsHandler(cmdOf(a).name))

\* calling cmd(args) with cmd taken from Object.prototype and no receiver:
\* a value that is no function cannot be called; valueOf and hasOwnProperty
\* convert the missing receiver to an object and throw; Object and toString
\* return
outsideCallThrows(cmd) ==
  \/ cmd.t # "function"
  \/ cmd.name \in {s_valueOf, s_hasOwnProperty}

\* buy's packageNames
packageNames == {s_basic, s_standard, s_premium, s_pro}

\* find with a callback that accepts every package: the first one is taken
findPackageIgnoresId(packages, packageType, i) ==
  IF Len(packages) = 0 THEN 0 ELSE 1

RECURSIVE findPackage(_, _, _)
\* packages.find(pkg => pkg.id === packageType): the first match's index, or 0
findPackage(packages, packageType, i) ==
  IF i > Len(packages) THEN 0
  ELSE IF packages[i].id = packageType THEN i
  ELSE findPackage(packages, packageType, i + 1)

\* the four config.set calls of a successful register or login
saveCredentials(f, data) ==
  LET c0 == ConfigManager(f)
      c1 == set(c0, s_apiKey, data.apiKey)
      c2 == set(c1, s_userId, data.user.id)
      c3 == set(c2, s_userEmail, data.user.email)
  IN set(c3, s_username, data.user.username)

(***************************************************************************)
(* The parts of the state a specification does not use stay as they start. *)
(***************************************************************************)
NoArgv == [present |-> FALSE, command |-> <<>>, args |-> <<>>]

\* the two invocations that may run at once
Invocations == {"A", "B"}

\* an invocation that has not received its response yet
NotStarted == [at |-> "idle", d |-> "none", i |-> 0, missing |-> FALSE,
               config |-> EmptyObject, before |-> NoConfig]

NoConc == [inv |-> [p \in Invocations |-> NotStarted], overlap |-> FALSE,
           last |-> "none"]

CliIdle ==
  /\ pc = "idle" /\ argv = NoArgv /\ out = <<>> /\ net = <<>>
  /\ resps = <<>> /\ calls = <<>>
  /\ exit = "none" /\ runs = 0
  /\ conc = NoConc

cliVars == <<pc, argv, out, net, resps, calls, exit, runs, conc>>

ParseIdle == pArgs = <<>> /\ pParsed = [done |-> FALSE, map |-> EmptyObject]

parseVars == <<pArgs, pParsed>>

NoCall == [n |-> 0, op |-> "none", key |-> <<>>, value |-> JUndef,
           ret |-> JUndef, before |-> NoConfig]

ConfigIdle == cCall = NoCall

NoSave == [n |-> 0, op |-> "none", files |-> EmptyObject, name |-> <<>>,
           ioFail |-> 0, threw |-> FALSE, out |-> <<>>, before |-> NoDisk]

SaveIdle == sCall = NoSave

(***************************************************************************)
(* ParseSpec: parseArgs applied to every token sequence of up to MaxArgs   *)
(* tokens over ParseTokens.                                                *)
(***************************************************************************)
ParseTokens ==
  { <<"-", "-", "a">>, <<"-", "-", "b">>, <<"x">>, <<"-", "a">>, s_empty,
    s_dashdash, s_dashdash \o s_proto }

ParseInputs == UNION { [1..m -> ParseTokens] : m \in 0..MaxArgs }

ParseInit ==
  /\ pArgs \in ParseInputs
  /\ pParsed = [done |-> FALSE, map |-> EmptyObject]
  /\ file = NoConfig /\ disk = NoDisk /\ CliIdle /\ ConfigIdle /\ SaveIdle

ParseCall ==
  /\ ~pParsed.done
  /\ pParsed' = [done |-> TRUE, map |-> parseArgs(pArgs)]
  /\ UNCHANGED <<file, disk, cliVars, pArgs, cCall, sCall>>

ParseNext == ParseCall

ParseSpec == ParseInit /\ [][ParseNext]_vars

(***************************************************************************)
(* ConfigSpec: up to MaxCalls calls on the configuration store, each       *)
(* constructing a ConfigManager, setting a key or getting a key.           *)
(***************************************************************************)
ConfigKeys == {s_apiKey, s_userId, s_toString, s_proto}

ConfigValues ==
  {JStr(<<"k", "1">>), JStr(s_empty), JNum(1), JTrue, JNull, JUndef}

\* the values JSON has a text for
JSONrepresentable(v) == v.t \in {"string", "number", "boolean", "null"}

ConfigInit ==
  /\ file \in {NoConfig, [NoConfig EXCEPT !.dir = TRUE]}
  /\ cCall = NoCall
  /\ disk = NoDisk /\ CliIdle /\ ParseIdle /\ SaveIdle

ConfigNew ==
  /\ cCall.n < MaxCalls
  /\ file' = ConfigManager(file)
  /\ cCall' = [NoCall EXCEPT !.n = cCall.n + 1, !.op = "new", !.before = file]
  /\ UNCHANGED <<disk, cliVars, parseVars, sCall>>

\* set and get are methods of a constructed store, whose file exists
ConfigSet ==
  /\ cCall.n < MaxCalls
  /\ file.exists
  /\ \E k \in ConfigKeys, v \in ConfigValues :
       /\ file' = set(file, k, v)
       /\ cCall' = [NoCall EXCEPT !.n = cCall.n + 1, !.op = "set", !.key = k,
                                  !.value = v, !.before = file]
  /\ UNCHANGED <<disk, cliVars, parseVars, sCall>>

ConfigGet ==
  /\ cCall.n < MaxCalls
  /\ file.exists
  /\ \E k \in ConfigKeys :
       cCall' = [NoCall EXCEPT !.n = cCall.n + 1, !.op = "get", !.key = k,
                               !.ret = get(file, k), !.before = file]
  /\ UNCHANGED <<file, disk, cliVars, parseVars, sCall>>

ConfigNext == ConfigNew \/ ConfigSet \/ ConfigGet

ConfigSpec == ConfigInit /\ [][ConfigNext]_vars

(***************************************************************************)
(* SaveSpec: up to MaxSaves calls of saveProjectFiles, on a disk that is   *)
(* empty or already holds a project.                                       *)
(***************************************************************************)
s_MyProj == <<"M", "y", " ", "P", "r", "o", "j">>
s_My_Proj == <<"M", "y", "-", "P", "r", "o", "j">>
s_app == <<"a", "p", "p">>
s_a_txt == <<"a", ".", "t", "x", "t">>
s_sub == <<"s", "u", "b">>
s_b_txt == <<"b", ".", "t", "x", "t">>
s_sub_b_txt == s_sub \o <<"/">> \o s_b_txt
s_hi == <<"h", "i">>
s_yo == <<"y", "o">>
s_old == <<"o", "l", "d">>

Entry(k, v) == [k |-> k, v |-> JStr(v)]

ProjectNames == {s_MyProj, s_app, <<"a", " ", "\t", "b">>}

ProjectFiles ==
  { EmptyObject,
    <<Entry(s_a_txt, s_hi)>>,
    <<Entry(s_a_txt, s_hi), Entry(s_sub_b_txt, s_yo)>>,
    <<Entry(s_sub_b_txt, s_yo), Entry(s_a_txt, s_hi)>>,
    <<Entry(s_a_txt, s_yo), Entry(s_b_txt, s_hi)>> }

\* a disk on which an earlier project My-Proj, with its sub directory, exists
OldProject ==
  [dirs |-> {<<s_My_Proj>>, <<s_My_Proj, s_sub>>},
   files |-> MapPut(EmptyMap, <<s_My_Proj, s_a_txt>>, JStr(s_old))]

SaveInit ==
  /\ disk \in {NoDisk, OldProject}
  /\ sCall = NoSave
  /\ file = NoConfig /\ CliIdle /\ ParseIdle /\ ConfigIdle

SaveCall ==
  /\ sCall.n < MaxSaves
  /\ \E files \in ProjectFiles, name \in ProjectNames, ioFail \in 0..2 :
       LET r == saveProjectFiles(files, name, disk, ioFail)
       IN /\ disk' = r.disk
          /\ sCall' = [n |-> sCall.n + 1, op |-> "save", files |-> files,
                       name |-> name, ioFail |-> ioFail, threw |-> r.threw,
                       out |-> r.out, before |-> disk]
  /\ UNCHANGED <<file, cliVars, parseVars, cCall>>

SaveNext == SaveCall

SaveSpec == SaveInit /\ [][SaveNext]_vars

(***************************************************************************)
(* The command handlers (client.js 159-475). A handler runs from its start *)
(* to its first await, and from each response to the next await or to its  *)
(* end. Each section is an operator giving the state it leaves: the        *)
(* configuration file, the lines printed, the requests issued and where    *)
(* the handler now is (an await, or "done").                               *)
(***************************************************************************)
Req(method, path, body) == [method |-> method, path |-> path, body |-> body]

Prop(k, v) == [k |-> k, v |-> v]

Step(f, printed, requests, at) ==
  [file |-> f, out |-> printed, net |-> requests, pc |-> at]

RECURSIVE joinArgs(_, _)
\* args.slice(i).join(' '), i counted from 0
joinArgs(args, i) ==
  IF i + 1 > Len(args) THEN <<>>
  ELSE IF i + 1 = Len(args) THEN args[i + 1]
  ELSE args[i + 1] \o <<" ">> \o joinArgs(args, i + 1)

\* commands.login up to `await ThreeJSAPI.login(username, key)`
commands_login(f, args) ==
  LET opts == parseArgs(args)
      username == ObjGet(opts, s_username)
      key == ObjGet(opts, s_key)
  IN IF ~Truthy(username) \/ ~Truthy(key)
     THEN Step(f, <<Err("Usage: three login")>>, <<>>, "done")
     ELSE Step(f, <<Log("Logging in")>>,
               <<Req("POST", "/api/auth/login",
                     <<Prop(s_username, username), Prop(s_key, key)>>)>>,
               "login")

\* commands.login from the value ThreeJSAPI.login returned
commands_login_then(f, data) ==
  IF Succeeded(data)
  THEN Step(saveCredentials(f, data),
            <<Log("Login successful"), Log("Credentials have been saved")>>,
            <<>>, "done")
  ELSE Step(f, <<>>, <<>>, "done")

\* commands.register up to `await ThreeJSAPI.register(email, username)`
commands_register(f, args) ==
  LET opts == parseArgs(args)
      email == ObjGet(opts, s_email)
      username == ObjGet(opts, s_username)
  IN IF ~Truthy(email) \/ ~Truthy(username)
     THEN Step(f, <<Err("Usage: three register")>>, <<>>, "done")
     ELSE Step(f, <<Log("Registering new user")>>,
               <<Req("POST", "/api/auth/register",
                     <<Prop(s_email, email), Prop(s_username, username)>>)>>,
               "register")

\* commands.register from the value ThreeJSAPI.register returned
commands_register_then(f, data) ==
  IF Succeeded(data)
  THEN Step(saveCredentials(f, data),
            <<Log("Registration successful"), Log("Welcome"),
              Log("Your new API key has been saved")>>,
            <<>>, "done")
  ELSE Step(f, <<>>, <<>>, "done")

\* commands.generate up to `await api.generateProject(specs)`
commands_generate(f, args) ==
  LET config == ConfigManager(f)
      apiKey == get(config, s_apiKey)
      specs == <<Prop(s_projectType, OrElse(ArgAt(args, 0), JStr(s_portfolio))),
                 Prop(s_complexity, OrElse(ArgAt(args, 1), JStr(s_intermediate))),
                 Prop(s_style, OrElse(ArgAt(args, 2), JStr(s_minimalist))),
                 Prop(s_description,
                      OrElse(JStr(joinArgs(args, 3)), JStr(s_defaultDescription)))>>
  IN IF ~Truthy(apiKey)
     THEN Step(config, <<Err("API Key not found")>>, <<>>, "done")
     ELSE Step(config,
               <<Log("Generating Three.js project"), Log("Type"), Log("Complexity"),
                 Log("Style"), Log("Description")>>,
               <<Req("POST", "/api/generate-project", specs)>>, "generate")

\* commands.generate from the value generateProject returned, up to
\* `await ThreeJSAPI.saveProjectFiles(project.files, project.name)`
commands_generate_then(f, data) ==
  IF Succeeded(data)
  THEN Step(f, <<Log("Project generated successfully"), Log("Project ID"),
                 Log("Gen Time"), Log("Tokens used"), Log("Remaining tokens")>>,
            <<>>, "save")
  ELSE Step(f, <<>>, <<>>, "done")

\* commands.createKey up to `await api.createApiKey(name)`
commands_createKey(f, args) ==
  LET config == ConfigManager(f)
      userId == get(config, s_userId)
      name == OrElse(ArgAt(args, 0), JStr(s_NewCLIKey))
  IN IF ~Truthy(userId)
     THEN Step(config, <<Err("User not found")>>, <<>>, "done")
     ELSE Step(config, <<Log("Creating new API key")>>,
               <<Req("POST", "/api/api-keys", <<Prop(s_name, name)>>)>>,
               "createKey")

\* commands.createKey from the value createApiKey returned
commands_createKey_then(f, data) ==
  IF Succeeded(data)
  THEN Step(f, <<Log("New API Key created successfully"), Log("the key")>>,
            <<>>, "done")
  ELSE Step(f, <<>>, <<>>, "done")

\* commands.whoami
commands_whoami(f) ==
  LET config == ConfigManager(f)
      username == get(config, s_username)
  IN IF ~Truthy(username)
     THEN Step(config, <<Log("Not logged in")>>, <<>>, "done")
     ELSE Step(config,
               <<Log("Current User"), Log("Username"), Log("Email"), Log("API Key"),
                 Log("Copy and keep this API Key")>>,
               <<>>, "done")

\* commands.tokens up to `await axios.get(.../api/tokens)`
commands_tokens(f) ==
  LET config == ConfigManager(f)
      apiKey == get(config, s_apiKey)
  IN IF ~Truthy(apiKey)
     THEN Step(config, <<Err("API Key not found")>>, <<>>, "done")
     ELSE Step(config, <<Log("Fetching token balance")>>,
               <<Req("GET", "/api/tokens", EmptyObject)>>, "tokens")

\* commands.tokens from the request's outcome
commands_tokens_then(f, resp) ==
  IF resp.status # "ok"
  THEN Step(f, <<Err("Error fetching token balance")>>, <<>>, "done")
  ELSE IF resp.data.success
       THEN Step(f, <<Log("Your token balance")>>, <<>>, "done")
       ELSE Step(f, <<Err("Failed to get token balance")>>, <<>>, "done")

\* the log line and the request of buy's last section (client.js 363-374)
createInvoice(amount, packageType) ==
  [out |-> <<Log("Creating payment order")>>,
   net |-> <<Req("POST", "/api/payments/create-invoice",
                 <<Prop(s_amount, amount), Prop(s_packageType, packageType)>>)>>]

UsageLines ==
  <<Err("Usage: three buy"), Log("Examples:"), Log("three buy 10 standard"),
    Log("three buy premium"), Log("Available packages")>>

\* commands.buy up to its first await: the package lookup when args[0] is
\* a package name, else the payment order when the amount is accepted
commands_buy(f, args) ==
  LET config == ConfigManager(f)
      apiKey == get(config, s_apiKey)
      amount == parseFloat(ArgAt(args, 0))
      packageType == OrElse(ArgAt(args, 1), JStr(s_standard))
  IN IF ~Truthy(apiKey)
     THEN Step(config, <<Err("API Key not found")>>, <<>>, "done")
     ELSE IF Len(args) >= 1 /\ args[1] \in packageNames
     THEN Step(config, <<>>, <<Req("GET", "/api/packages", EmptyObject)>>, "buy_lookup")
     ELSE IF amountRejected(amount)
     THEN Step(config, UsageLines, <<>>, "done")
     ELSE Step(config, createInvoice(amount, packageType).out,
               createInvoice(amount, packageType).net, "buy_post")

\* commands.buy from the package lookup's outcome (client.js 335-347): a
\* body without a packages list makes .find throw inside the try block
commands_buy_lookup_then(f, args, resp) ==
  LET packageType == args[1]
  IN IF resp.status # "ok" \/ ~resp.data.hasPackages
     THEN Step(f, <<Err("Error fetching package information")>>, <<>>, "done")
     ELSE LET i == findPackage(resp.data.packages, packageType, 1)
          IN IF i = 0
             THEN Step(f, <<Err("Package not found"), Log("Available packages")>>,
                       <<>>, "done")
             ELSE Step(f, createInvoice(resp.data.packages[i].price, JStr(packageType)).out,
                       createInvoice(resp.data.packages[i].price, JStr(packageType)).net,
                       "buy_post")

\* commands.buy from the payment order's outcome (client.js 376-389)
commands_buy_post_then(f, resp) ==
  IF resp.status # "ok"
  THEN Step(f, <<Err("Error creating payment order")>>, <<>>, "done")
  ELSE IF resp.data.success
       THEN Step(f, <<Log("Payment order created successfully"), Log("Order ID"),
                      Log("Amount"), Log("Package"), Log("Please complete your payment at"),
                      Log("the payment URL"), Log("Open the link in your browser")>>,
                 <<>>, "done")
       ELSE Step(f, <<Err("Failed to create payment order")>>, <<>>, "done")

\* commands.package: pricing.html in the working directory is opened in the
\* browser, and a failure of that shows the URL; with no such file, or when
\* anything throws, the online URL is shown
commands_package(f, localPage, browserOpens) ==
  IF localPage
  THEN Step(f, <<Log("Opening package and pricing page"), Log("Opening local pricing page")>>
               \o (IF browserOpens THEN <<>> ELSE <<Log("Please visit the local page")>>),
            <<>>, "done")
  ELSE Step(f, <<Log("Opening package and pricing page"), Log("Please visit"),
                 Log("This is the default frontend")>>,
            <<>>, "done")

\* commands.help
commands_help(f) == Step(f, <<Log("Three.js AI CLI Generator"), Log("Usage:")>>, <<>>, "done")

(***************************************************************************)
(* Spec: up to MaxRuns invocations of the program, one after another, on   *)
(* the same configuration file and disk. An invocation is main's dispatch  *)
(* and the handler's first section; each response then resumes the         *)
(* handler.                                                                *)
(***************************************************************************)
\* the first tokens whose handlers read their arguments, create-key among
\* them as the documented name of createKey
ArgCommands == {s_generate, s_createKey, s_create_key, s_tokens, s_buy}

AuthCommands == {s_login, s_register}

\* the other first tokens: handlers without arguments, the version flags,
\* names of no handler, and names Object.prototype defines
OtherTokens ==
  { s_whoami, s_package, s_help, s_v, s_version, s_foo, s_empty,
    s_proto, s_constructor, s_toString, s_valueOf }

CommandTokens == ArgCommands \cup AuthCommands \cup OtherTokens

FlagLists ==
  { <<s_dashdash \o s_username, s_alice, s_dashdash \o s_key, s_tk_1>>,
    <<s_dashdash \o s_username, s_alice>>,
    <<s_dashdash \o s_username, s_empty, s_dashdash \o s_key, s_tk_1>>,
    <<s_dashdash \o s_email, s_a_example, s_dashdash \o s_username, s_alice>> }

PositionalLists ==
  { <<s_ten, s_standard>>, <<s_ten>>, <<s_five, s_pro>>, <<s_premium>>, <<s_basic>>,
    <<s_minus5>>, <<s_zero>>, <<s_abc>>, <<s_tenabc, s_pro>>, <<s_Infinity>>,
    <<s_game>> }

ArgLists == {<<>>} \cup FlagLists \cup PositionalLists

Argv(c, a) == [present |-> TRUE, command |-> c, args |-> a]

Argvs ==
  {NoArgv}
  \cup {Argv(c, a) : c \in ArgCommands, a \in ArgLists}
  \cup {Argv(c, a) : c \in AuthCommands, a \in {<<>>, <<s_game>>} \cup FlagLists}
  \cup {Argv(c, a) : c \in OtherTokens, a \in {<<>>, <<s_game>>}}

GenerateResponses ==
  {NetworkError, HttpError, Ok(Refusal)} \cup
  { Ok([success |-> TRUE, project |-> [name |-> n, files |-> f]]) :
      n \in {s_MyProj, s_app},
      f \in { <<Entry(s_a_txt, s_hi)>>,
              <<Entry(s_a_txt, s_hi), Entry(s_sub_b_txt, s_yo)>> } }

KeyResponses ==
  {NetworkError, HttpError, Ok(Refusal), Ok([success |-> TRUE, apiKey |-> JStr(<<"k", "3">>)])}

PlainResponses == {NetworkError, HttpError, Ok(Refusal), Ok([success |-> TRUE])}

Package(id, price) == [id |-> id, price |-> price]

PackageLists ==
  { <<>>,
    <<Package(s_basic, JNum(5)), Package(s_premium, JNum(25))>>,
    <<Package(s_premium, JNum(25)), Package(s_premium, JNum(30))>>,
    <<Package(s_basic, JNum(5))>>,
    <<Package(s_premium, JNum(0))>>,
    <<Package(s_premium, JUndef)>> }

PackagesResponses ==
  {NetworkError, HttpError, Ok([hasPackages |-> FALSE, packages |-> <<>>])} \cup
  {Ok([hasPackages |-> TRUE, packages |-> l]) : l \in PackageLists}

harnessVars == <<pArgs, pParsed, cCall, sCall>>

Init ==
  /\ file = NoConfig
  /\ disk = NoDisk
  /\ CliIdle /\ ParseIdle /\ ConfigIdle /\ SaveIdle

CanStart == pc \in {"idle", "done"} /\ runs < MaxRuns

ExitOf(at) == IF at = "done" THEN "ok" ELSE "running"

\* the process starts with command line a and runs to the state st
Start(a, st) ==
  /\ argv' = a
  /\ runs' = runs + 1
  /\ resps' = <<>>
  /\ calls' = <<>>
  /\ file' = st.file
  /\ out' = st.out
  /\ net' = st.net
  /\ pc' = st.pc
  /\ exit' = ExitOf(st.pc)
  /\ UNCHANGED <<disk, conc, harnessVars>>

\* the pending request ends in resp; the client methods cs run and the
\* handler resumes and runs to the state st
Resume(resp, cs, st) ==
  /\ resps' = Append(resps, resp)
  /\ calls' = calls \o cs
  /\ file' = st.file
  /\ out' = out \o st.out
  /\ net' = net \o st.net
  /\ pc' = st.pc
  /\ exit' = ExitOf(st.pc)
  /\ UNCHANGED <<argv, runs, disk, conc, harnessVars>>

\* what a client method printed, ahead of what the handler prints after it
After(c, st) == [st EXCEPT !.out = c.out \o @]

Main_version ==
  \E a \in Argvs :
    /\ CanStart /\ isVersion(a)
    /\ Start(a, Step(file, <<Log("pkg.version")>>, <<>>, "done"))

\* cmd is a member of Object.prototype: the call throws out of main, or
\* returns having printed nothing
Main_outside ==
  \E a \in Argvs :
    /\ CanStart /\ DispatchesOutside(a)
    /\ argv' = a
    /\ runs' = runs + 1
    /\ resps' = <<>> /\ calls' = <<>> /\ out' = <<>> /\ net' = <<>>
    /\ pc' = "done"
    /\ exit' = IF outsideCallThrows(cmdOf(a)) THEN "uncaught" ELSE "ok"
    /\ UNCHANGED <<file, disk, conc, harnessVars>>

Run_help ==
  \E a \in Argvs :
    CanStart /\ Dispatches(a, s_help) /\ Start(a, commands_help(file))

Run_whoami ==
  \E a \in Argvs :
    CanStart /\ Dispatches(a, s_whoami) /\ Start(a, commands_whoami(file))

Run_package ==
  \E a \in Argvs, localPage \in BOOLEAN, browserOpens \in BOOLEAN :
    /\ CanStart /\ Dispatches(a, s_package)
    /\ Start(a, commands_package(file, localPage, browserOpens))

Run_login ==
  \E a \in Argvs :
    CanStart /\ Dispatches(a, s_login) /\ Start(a, commands_login(file, a.args))

Login_response ==
  /\ pc = "login"
  /\ \E resp \in AuthResponses :
       LET c == ThreeJSAPI_login(resp)
       IN Resume(resp, <<c>>, After(c, commands_login_then(file, c.ret)))

Run_register ==
  \E a \in Argvs :
    CanStart /\ Dispatches(a, s_register) /\ Start(a, commands_register(file, a.args))

Register_response ==
  /\ pc = "register"
  /\ \E resp \in AuthResponses :
       LET c == ThreeJSAPI_register(resp)
       IN Resume(resp, <<c>>, After(c, commands_register_then(file, c.ret)))

Run_createKey ==
  \E a \in Argvs :
    CanStart /\ Dispatches(a, s_createKey) /\ Start(a, commands_createKey(file, a.args))

CreateKey_response ==
  /\ pc = "createKey"
  /\ \E resp \in KeyResponses :
       LET c == createApiKey(resp)
       IN Resume(resp, <<c>>, After(c, commands_createKey_then(file, c.ret)))

Run_tokens ==
  \E a \in Argvs :
    CanStart /\ Dispatches(a, s_tokens) /\ Start(a, commands_tokens(file))

Tokens_response ==
  /\ pc = "tokens"
  /\ \E resp \in PlainResponses : Resume(resp, <<>>, commands_tokens_then(file, resp))

Run_buy ==
  \E a \in Argvs :
    CanStart /\ Dispatches(a, s_buy) /\ Start(a, commands_buy(file, a.args))

Buy_lookup_response ==
  /\ pc = "buy_lookup"
  /\ \E resp \in PackagesResponses :
       Resume(resp, <<>>, commands_buy_lookup_then(file, argv.args, resp))

Buy_post_response ==
  /\ pc = "buy_post"
  /\ \E resp \in PlainResponses : Resume(resp, <<>>, commands_buy_post_then(file, resp))

Run_generate ==
  \E a \in Argvs :
    CanStart /\ Dispatches(a, s_generate) /\ Start(a, commands_generate(file, a.args))

\* the response resumes generate, which on success calls saveProjectFiles
\* and ends with it: normally, or by the exception that leaves it
Generate_response ==
  /\ pc = "generate"
  /\ \E resp \in GenerateResponses, ioFail \in 0..1 :
       LET c == generateProject(resp)
           st == After(c, commands_generate_then(file, c.ret))
           sv == ThreeJSAPI_saveProjectFiles(c.ret.project.files, c.ret.project.name,
                                             disk, ioFail)
       IN IF st.pc = "save"
          THEN /\ resps' = Append(resps, resp)
               /\ calls' = calls \o <<c, [sv EXCEPT !.disk = NoDisk]>>
               /\ out' = out \o st.out \o sv.out
               /\ disk' = sv.disk
               /\ pc' = "done"
               /\ exit' = IF sv.threw THEN "uncaught" ELSE "ok"
               /\ UNCHANGED <<file, net, argv, runs, conc, harnessVars>>
          ELSE /\ ioFail = 0
               /\ Resume(resp, <<c>>, st)

Next ==
  \/ Main_version \/ Main_outside
  \/ Run_help \/ Run_whoami \/ Run_package
  \/ Run_login \/ Login_response
  \/ Run_register \/ Register_response
  \/ Run_createKey \/ CreateKey_response
  \/ Run_tokens \/ Tokens_response
  \/ Run_buy \/ Buy_lookup_response \/ Buy_post_response
  \/ Run_generate \/ Generate_response

Spec == Init /\ [][Next]_vars

(***************************************************************************)
(* Two invocations whose register or login succeeded save their            *)
(* credentials on the same file.  Nothing orders the file operations of    *)
(* one process against those of the other, so each existsSync,             *)
(* readFileSync and writeFileSync is a step of its own.                    *)
(***************************************************************************)
\* config.set(key, value) after its read: the record read, with the key
\* assigned, replaces the file (a mutation that writes the key alone)
setWritesOnlyKey(f, config, key, value) == write(f, ObjSet(EmptyObject, key, value))

\* config.set(key, value) after its read: the record read, with the key
\* assigned, replaces the file
setWrite(f, config, key, value) == write(f, ObjSet(config, key, value))

\* the four config.set calls of a successful register or login, in order
credentialSets(data) ==
  << [k |-> s_apiKey, v |-> data.apiKey],
     [k |-> s_userId, v |-> data.user.id],
     [k |-> s_userEmail, v |-> data.user.email],
     [k |-> s_username, v |-> data.user.username] >>

Running(p) == conc.inv[p].at \notin {"idle", "done"}

RaceInit ==
  /\ file = NoConfig
  /\ disk = NoDisk
  /\ CliIdle /\ ParseIdle /\ ConfigIdle /\ SaveIdle

raceIdle == <<disk, pc, argv, out, net, resps, calls, exit, runs, harnessVars>>

\* the response of p arrives with success = true; new ConfigManager() makes
\* the directory and looks whether the file exists
Race_new(p) ==
  /\ conc.inv[p].at = "idle"
  /\ \E d \in Users :
       conc' = [conc EXCEPT
                  !.inv[p] = [@ EXCEPT !.at = "create", !.d = d,
                                       !.missing = ~file.exists, !.before = file],
                  !.overlap = @ \/ \E q \in Invocations \ {p} : Running(q)]
  /\ file' = [file EXCEPT !.dir = TRUE]
  /\ UNCHANGED raceIdle

\* ensureConfigExists writes {} when the file was missing at the look
Race_create(p) ==
  /\ conc.inv[p].at = "create"
  /\ file' = IF conc.inv[p].missing THEN write(file, EmptyObject) ELSE file
  /\ conc' = [conc EXCEPT !.inv[p] = [@ EXCEPT !.at = "read", !.i = 1]]
  /\ UNCHANGED raceIdle

\* config.set: const config = this.read()
Race_read(p) ==
  /\ conc.inv[p].at = "read"
  /\ conc' = [conc EXCEPT !.inv[p] = [@ EXCEPT !.at = "write", !.config = read(file)]]
  /\ UNCHANGED <<file, raceIdle>>

\* config.set: config[key] = value; this.write(config); after the fourth
\* set the handler prints its messages and the process ends
Race_write(p) ==
  /\ conc.inv[p].at = "write"
  /\ LET me == conc.inv[p]
         s == credentialSets(AuthData(me.d))[me.i]
     IN /\ file' = setWrite(file, me.config, s.k, s.v)
        /\ conc' = IF me.i = Len(credentialSets(AuthData(me.d)))
                   THEN [conc EXCEPT !.inv[p] = [@ EXCEPT !.at = "done"], !.last = p]
                   ELSE [conc EXCEPT !.inv[p] = [@ EXCEPT !.at = "read", !.i = @ + 1]]
  /\ UNCHANGED raceIdle

RaceNext ==
  \E p \in Invocations :
    \/ Race_new(p)
    \/ Race_create(p)
    \/ Race_read(p)
    \/ Race_write(p)

RaceSpec == RaceInit /\ [][RaceNext]_vars

(***************************************************************************)
(* Claims about parseArgs and the configuration store.                     *)
(***************************************************************************)
\* an object's own properties as a function from key to value
AsMap(o) == [k \in {o[i].k : i \in 1..Len(o)} |-> o[OwnIndex(o, k)].v]

RECURSIVE FlagRule(_, _, _)
\* the map the stated rule gives: a token beginning with -- is a key; a
\* following token that exists and does not begin with -- is consumed as its
\* string value; otherwise the value is true; other tokens add nothing
FlagRule(args, i, m) ==
  IF i > Len(args) THEN m
  ELSE IF StartsWith(args[i], s_dashdash)
       THEN IF i + 1 <= Len(args) /\ ~StartsWith(args[i + 1], s_dashdash)
            THEN FlagRule(args, i + 2, MapPut(m, Slice(args[i], 2), JStr(args[i + 1])))
            ELSE FlagRule(args, i + 1, MapPut(m, Slice(args[i], 2), JTrue))
       ELSE FlagRule(args, i + 1, m)

\* C7: for every token sequence, parseArgs returns the map of the stated
\* rule: each -- token is a key whose value is the following token when that
\* token exists and is not itself a -- token (then consumed), else true.
C7_ParseArgsFollowsRule ==
  pParsed.done => AsMap(pParsed.map) = FlagRule(pArgs, 1, <<>>)

\* C6: after set(k, v) with a JSON-representable v, get(k) returns v from
\* the same store and from one constructed afresh over the file, and every
\* other key reads as before; a store constructed with no file reads back
\* as the empty record, and constructing one over a file keeps its text.
C6_ConfigRoundTrip ==
  /\ (cCall.op = "set" /\ JSONrepresentable(cCall.value)) =>
       /\ get(file, cCall.key) = cCall.value
       /\ get(ConfigManager(file), cCall.key) = cCall.value
       /\ \A k \in ConfigKeys \ {cCall.key} : get(file, k) = get(cCall.before, k)
  /\ (cCall.op = "new" /\ ~cCall.before.exists) =>
       file.exists /\ read(file) = EmptyObject
  /\ (cCall.op = "new" /\ cCall.before.exists) => file = cCall.before
\* the file an entry names: the directory's path and then the entry's components
EntryPath(name, k) == projectDirOf(name) \o SplitPath(k, <<>>)

EntryWritten(d, name, e) ==
  /\ EntryPath(name, e.k) \in DOMAIN d.files
  /\ d.files[EntryPath(name, e.k)] = e.v

\* the entries a call wrote: one "Created" line is printed for each
Written(c) == Cardinality({i \in 1..Len(c.out) : c.out[i] = Log("Created")})

\* C10: for every name and every mapping, also one with a sub-directory
\* path, when the operating system refuses no write the writer returns with
\* the directory created and every entry at directory/relativePath holding
\* its content; when a write fails the entries written before it remain.
C10_SaveWritesEveryEntry ==
  sCall.op = "save" =>
    /\ sCall.ioFail = 0 =>
         /\ ~sCall.threw
         /\ IsDir(disk, projectDirOf(sCall.name))
         /\ \A i \in 1..Len(sCall.files) : EntryWritten(disk, sCall.name, sCall.files[i])
    /\ \A i \in 1..Written(sCall) : EntryWritten(disk, sCall.name, sCall.files[i])
(***************************************************************************)
(* Claims about an invocation of the program.                              *)
(***************************************************************************)
Done == pc = "done"

Last(q) == q[Len(q)]

Ran(name) == argv.present /\ argv.command = name

\* no prior configuration: no file, or the empty record
NoConfiguration == ~file.exists \/ read(file) = EmptyObject

CredentialMissingLines == {Err("API Key not found"), Err("User not found")}

\* C1: an invocation `<program> <command> ...` with command one of generate,
\* create-key, tokens, buy and no prior configuration issues no network call
\* and ends having printed a credential-missing message.
C1_NoCredentialsNoNetwork ==
  (argv.present /\ argv.command \in {s_generate, s_create_key, s_tokens, s_buy}
     /\ NoConfiguration) =>
    /\ net = <<>>
    /\ Done => \E i \in 1..Len(out) : out[i] \in CredentialMissingLines

\* C2: a first token that names no handler and is not -v/--version, or no
\* token at all, runs help: the usage text is printed and the process
\* completes normally.
C2_UnknownFallsBackToHelp ==
  (Done /\ ~(argv.present /\ (IsHandler(argv.command) \/ argv.command \in {s_v, s_version}))) =>
    /\ out = commands_help(file).out
    /\ exit = "ok"

\* the step receives a successful register or login response
AuthSucceeds ==
  /\ pc \in {"login", "register"}
  /\ Len(resps') = Len(resps) + 1
  /\ Last(resps').status = "ok"
  /\ Last(resps').data.success

\* C3: the configuration file is never deleted; a step changes it only by
\* a successful register or login, or by creating the empty record when no
\* file exists; and a register or login step that does not succeed leaves
\* the file exactly as it was.
C3_ConfigChangedOnlyBySuccessfulAuth ==
  [][ /\ file.exists => file'.exists
      /\ file' # file =>
           \/ AuthSucceeds
           \/ ~file.exists /\ file'.exists /\ read(file') = EmptyObject
      /\ (argv'.present /\ argv'.command \in {s_login, s_register} /\ ~AuthSucceeds)
           => file' = file ]_vars

\* a failed login has returned, with the credentials of an earlier login stored
C3_Witness ==
  /\ Done /\ Ran(s_login)
  /\ resps # <<>> /\ Last(resps) = Ok(Refusal)
  /\ file.exists /\ Truthy(get(file, s_apiKey))

\* the request that carries out each network command's action
ActionPath ==
  [c \in {s_login, s_register, s_generate, s_createKey, s_tokens, s_buy} |->
     CASE c = s_login -> "/api/auth/login"
       [] c = s_register -> "/api/auth/register"
       [] c = s_generate -> "/api/generate-project"
       [] c = s_createKey -> "/api/api-keys"
       [] c = s_tokens -> "/api/tokens"
       [] c = s_buy -> "/api/payments/create-invoice"]

\* the command's request was issued and answered with success = true
Achieved ==
  /\ net # <<>>
  /\ Len(resps) = Len(net)
  /\ Last(net).path = ActionPath[argv.command]
  /\ Last(resps).status = "ok"
  /\ Last(resps).data.success

\* C4: when a handler of a network command returns without having achieved
\* its action (credentials missing, invalid input, network error, or a body
\* with success = false), it has printed an error message.
C4_NoSilentFailure ==
  (Done /\ exit = "ok" /\ argv.present /\ argv.command \in DOMAIN ActionPath
     /\ ~Achieved) =>
    \E i \in 1..Len(out) : out[i].stream = "stderr"

\* C5: no ThreeJSAPI method lets a failure escape: a call whose operation
\* failed has printed to the error stream and returned null, and a call of
\* a remote method whose request succeeded has returned the parsed body.
C5_ClientMethodsNeverThrow ==
  \A i \in 1..Len(calls) :
    /\ ~calls[i].threw
    /\ calls[i].failed =>
         /\ calls[i].ret = NullData
         /\ calls[i].out # <<>> /\ Last(calls[i].out).stream = "stderr"
    /\ (~calls[i].failed /\ calls[i].method # "saveProjectFiles") =>
         calls[i].ret = resps[1].data

InvoicePath == "/api/payments/create-invoice"

\* a number above zero
Positive(v) == v.t = "Infinity" \/ (v.t = "number" /\ v.n > 0)

HasApiKey == file.exists /\ Truthy(get(file, s_apiKey))

\* first positionals that are neither a package name nor a positive amount
InvalidFirst == {s_minus5, s_zero, s_abc, s_game, s_dashdash \o s_username,
                 s_dashdash \o s_email}

\* C8: with an apiKey present, buy with an amount that is not a positive
\* number or with an unknown package name prints a message and ends with no
\* request sent; and no payment-order POST carries an amount that is
\* missing, non-numeric, zero or negative, on the amount path or the
\* package-name path.
C8_BuyValidatesBeforeNetwork ==
  /\ (Ran(s_buy) /\ HasApiKey /\ (argv.args = <<>> \/ argv.args[1] \in InvalidFirst)) =>
       Done /\ net = <<>> /\ out # <<>>
  /\ \A i \in 1..Len(net) :
       net[i].path = InvoicePath => Positive(ObjGet(net[i].body, s_amount))

\* the positive amounts among the first positionals, with their values
AmountTokens == {[token |-> s_ten, n |-> 10], [token |-> s_five, n |-> 5]}

RecognizedPackages == {s_basic, s_standard, s_premium, s_pro}

\* the first package of the lookup's response whose id is the name, if any
Matches(name) ==
  IF resps[1].status = "ok" /\ resps[1].data.hasPackages
  THEN {i \in 1..Len(resps[1].data.packages) : resps[1].data.packages[i].id = name}
  ELSE {}

FirstMatch(name) == CHOOSE i \in Matches(name) : \A j \in Matches(name) : i <= j

Invoice(amount, packageType) ==
  Req("POST", InvoicePath, <<Prop(s_amount, amount), Prop(s_packageType, JStr(packageType))>>)

Lookup == Req("GET", "/api/packages", EmptyObject)

\* C9: in buy at most one request is in flight; a positive numeric first
\* positional issues only the payment-order POST, with that amount and
\* the second positional or "standard" as packageType; a recognized package
\* name issues the lookup GET first and, only after its response and only
\* if that response holds a package with that id, the POST with the first
\* such package's price; a failed lookup or one without a match is followed
\* by no POST.
C9_BuyCallOrder ==
  (Ran(s_buy) /\ HasApiKey) =>
    /\ Len(net) - Len(resps) \in {0, 1}
    /\ \A t \in AmountTokens :
         argv.args # <<>> /\ argv.args[1] = t.token =>
           net = <<Invoice(JNum(t.n),
                           IF Len(argv.args) >= 2 THEN argv.args[2] ELSE s_standard)>>
    /\ (argv.args # <<>> /\ argv.args[1] \in RecognizedPackages) =>
         /\ net # <<>> /\ net[1] = Lookup
         /\ \A i \in 2..Len(net) : net[i] # Lookup
         /\ resps # <<>> =>
              IF Matches(argv.args[1]) = {}
              THEN net = <<Lookup>> /\ Done
              ELSE net = <<Lookup,
                           Invoice(resps[1].data.packages[FirstMatch(argv.args[1])].price,
                                   argv.args[1])>>
         /\ resps = <<>> => net = <<Lookup>>

\* buy premium has looked the package up, skipped a package with another
\* id, and then ordered the payment at the price of the match
C9_Witness ==
  /\ Done /\ Ran(s_buy) /\ argv.args = <<s_premium>>
  /\ Len(net) = 2 /\ Len(resps) = 2
  /\ FirstMatch(s_premium) = 2

(***************************************************************************)
(* Claims about invocations that share the configuration file.             *)
(***************************************************************************)
CredentialKeys == {s_apiKey, s_userId, s_userEmail, s_username}

\* the record's four credential fields are those of the response for d
FromResponse(f, d) ==
  \A n \in 1..Len(credentialSets(AuthData(d))) :
    get(f, credentialSets(AuthData(d))[n].k) = credentialSets(AuthData(d))[n].v

\* every own key of the record in f is an own key of the record in g
KeysKept(f, g) ==
  f.exists => \A n \in 1..Len(read(f)) : HasOwn(read(g), read(f)[n].k)

AllEnded == \A p \in Invocations : ~Running(p)

BothDone == \A p \in Invocations : conc.inv[p].at = "done"

\* C11: when the invocations ran one after another, the one that completed
\* last leaves the record holding apiKey, userId, userEmail and username of
\* its own response, with every key the record had before it still present:
\* the file is what the four sets make of the file it found.
C11_SequentialSetsLoseNothing ==
  \A p \in Invocations :
    (conc.last = p /\ ~conc.overlap /\ AllEnded) =>
      /\ FromResponse(file, conc.inv[p].d)
      /\ KeysKept(conc.inv[p].before, file)
      /\ file = saveCredentials(conc.inv[p].before, AuthData(conc.inv[p].d))

\* both invocations have finished, and the four credential fields come
\* from two different responses: a completed set of each is missing
C11_Witness ==
  /\ BothDone
  /\ \A d \in Users : ~FromResponse(file, d)
  /\ \A p \in Invocations :
       \E n \in 1..Len(credentialSets(AuthData(conc.inv[p].d))) :
         get(file, credentialSets(AuthData(conc.inv[p].d))[n].k)
           # credentialSets(AuthData(conc.inv[p].d))[n].v

====
